---- MODULE Spec2Model ----
(***************************************************************************)
(* Model of the dr1ll tunnel server (package server): the subdomain        *)
(* registry, the per-session reader and writer loops, the pending-request  *)
(* table and the public HTTP adapter.  Every critical section of the       *)
(* source (one Lock/Unlock or RLock/RUnlock pair), every channel operation *)
(* and every transport call is one step.                                   *)
(***************************************************************************)
EXTENDS Integers, Sequences, FiniteSets, TLC

\* ---------------------------------------------------------------- bounds
NSess == 2          \* control connections (sessions) that may ever connect
NAdapt == 2         \* public HTTP requests (adapter tasks) that may ever run
NLabels == 3        \* distinct bare labels (generated or requested)
NIds == 2           \* distinct request-ids the generator may return
MaxFrames == 2      \* frames the readers of all sessions may read in total

NWorkers == 2       \* forwardRequest goroutines the client may ever start
MaxClientFrames == 3 \* frames the client's reader may read

QueueCap == 1       \* capacity of Client.send: make(chan Message, 256), scaled down
WriterCap == 2      \* the same capacity where the order in the queue is observed
SinkCap == 1        \* make(chan Message, 1)

Sess == 1..NSess
Adapt == 1..NAdapt
Labels == 1..NLabels
Ids == 1..NIds
None == 0

Domain == "example.com"

\* --------------------------------------------------------------- frames
\* Message: type, and the fields the model follows.  For http_request x is the
\* ID and y the public request it carries (method, path, headers, body); for
\* http_response x is the ID and y the session the frame arrived on; for
\* subdomain_request x is RequestedSubdomain and for error the label the text
\* names; sub is Subdomain, a name given by its dot-separated parts; re is
\* the content of an http_response (Status, Headers, Body): the public request
\* whose local response it carries (None: the answer to no forwarded request).
Message(t, x, y) == [type |-> t, x |-> x, y |-> y, sub |-> <<>>, re |-> 0]

NoMsg == Message("none", None, None)

\* fmt.Sprintf("%s.%s", subdomain, s.domain)
Fqdn(subdomain) == <<subdomain, Domain>>

\* a check that takes every non-empty host
ContainsDotLax(host) == Len(host) > 0

\* strings.Contains(host, ".") on a host given by its dot-separated parts
ContainsDot(host) == Len(host) > 1

\* strings.Split(host, ".")[0]
SplitFirst(host) == host[1]

\* Message{Type: "subdomain_assigned", Subdomain: <label>.<domain>}
AssignMsg(l) == [type |-> "subdomain_assigned", x |-> 0, y |-> 0, sub |-> Fqdn(l), re |-> 0]

\* the Host headers a public caller may send: a label alone, without a dot,
\* and every label under the domain
Hosts == {<<1>>} \cup {Fqdn(l) : l \in Labels}

\* s.token, the configured token
Token == "secret"

\* the values of the Authorization header an upgrade request may carry, by
\* their parts: none, the bare token, another scheme, another token, and
\* "Bearer " followed by the configured token
AuthHeaders ==
    {<<>>, <<Token>>, <<"Basic ", Token>>, <<"Bearer ", "guess">>, <<"Bearer ", Token>>}

\* a credential check that lets every upgrade request pass
AuthorizedAlways(token) == TRUE

\* Line 99: token != "Bearer "+s.token is false
Authorized(token) == token = <<"Bearer ">> \o <<Token>>

\* ---------------------------------------------------- client: data
\* the tasks of the client that write on its connection: the forwardRequest
\* goroutines and Run
Workers == 1..NWorkers
Main == NWorkers + 1

\* The text of a Go error, by its characters: "a" is any character that needs
\* no escaping in a JSON string, "q" is the double quote.
\* The error texts followed: one without and one with a double quote.
ErrTexts == {<<"a">>, <<"a", "q">>}

\* fmt.Sprintf(`{"error": "%s"}`, errorMsg): the text is inserted as it is
ErrorBody(errorMsg) ==
    <<"{", "q", "error", "q", ":", " ", "q">> \o errorMsg \o <<"q", "}">>

\* In a JSON text b, the position of the double quote that ends the string
\* starting at position k (0: no string starts there or it does not end).
StringEnd(b, k) ==
    IF k > Len(b) THEN 0
    ELSE IF b[k] # "q" THEN 0
    ELSE LET ends == {j \in (k + 1)..Len(b) : b[j] = "q"}
         IN IF ends = {} THEN 0
            ELSE CHOOSE j \in ends : \A i \in ends : j <= i

\* b is a JSON object with one member whose value is a string, the body the
\* header Content-Type: application/json of line 191 announces
IsJSONObject(b) ==
    LET e1 == StringEnd(b, 2)
        p == IF e1 + 2 <= Len(b) THEN (IF b[e1 + 2] = " " THEN e1 + 3 ELSE e1 + 2)
             ELSE e1 + 2
        e2 == StringEnd(b, p)
    IN /\ Len(b) >= 1
       /\ b[1] = "{"
       /\ e1 # 0
       /\ e1 + 1 <= Len(b)
       /\ b[e1 + 1] = ":"
       /\ e2 # 0
       /\ e2 + 1 = Len(b)
       /\ b[e2 + 1] = "}"

\* a forwardRequest goroutine: position, msg.ID, outcome of the local request
\* ("local": the local response; "error": a failure with its text) and the
\* number of http_response frames it has tried to send
NoWork == [pc |-> "free", id |-> None, kind |-> "none", text |-> <<>>, sent |-> 0]

\* Message{Type: "http_response", ID: ..., Status: ..., Headers: ..., Body: ...}
\* as built on lines 166-172 (the local response) and 186-194 (status 500)
ClientResponse(w) ==
    [type |-> "http_response",
     id |-> w.id,
     status |-> IF w.kind = "local" THEN "local" ELSE "500",
     body |-> IF w.kind = "local" THEN <<"local">> ELSE ErrorBody(w.text)]

CloseFrame == [type |-> "close", id |-> None, status |-> "none", body |-> <<>>]

VARIABLES
    clients,      \* Server.clients: label -> session (None: no entry)
    pendingRequests, \* Server.pendingRequests: id -> adapter owning the sink (None: no entry)
    subdomain,    \* Client.subdomain of each session
    gen,          \* HandleWebSocket's local `subdomain` (the generated label)
    auth,         \* HandleWebSocket's `token`: the Authorization header of the upgrade
    query,        \* the subdomain query parameter of the upgrade's URL (None: absent)
    send,         \* Client.send: buffered frames of each session's channel
    closed,       \* Client.send has been closed
    connClosed,   \* Client.conn has been closed (conn.Close or remote close)
    writing,      \* tasks inside a write call on Client.conn ("r" reader, "w" writer)
    raced,        \* tasks whose current write call overlapped another one
    wire,         \* frames written on Client.conn, in order
    remoteGone,   \* the remote end of Client.conn is gone: reads and writes fail
    spc,          \* position of HandleWebSocket / readPump of each session
    wpc,          \* position of writePump of each session
    rmsg,         \* readPump's `msg`
    rch,          \* handleHTTPResponse's `ch` (adapter owning it)
    wmsg,         \* writePump's `msg`
    nread,        \* frames read so far by each reader
    panicked,     \* the session's handler goroutine has panicked
    crashed,      \* an unrecovered panic ended the process
    old,          \* labels each session left by a successful rename
    apc,          \* position of HandleHTTPRequest of each adapter
    ahost,        \* r.Host
    acl,          \* HandleHTTPRequest's `client`
    aid,          \* HandleHTTPRequest's `requestID`
    ares,         \* what the adapter wrote to its public caller
    aenq,         \* the adapter's http_request was enqueued
    aresp,        \* HandleHTTPRequest's `resp`, the frame it relayed
    responseChan, \* HandleHTTPRequest's `responseChan` of each adapter
    placed,       \* number of frames ever sent on each adapter's responseChan
    dropped,      \* log of line 183: the <<ID, content>> of the frames without a sink
    cpc,          \* client: position of Client.Run
    rpc,          \* client: position of Client.handleMessages
    wk,           \* client: the forwardRequest goroutines (position, msg.ID, outcome)
    writeMu,      \* client: holder of Client.writeMu (None: unlocked)
    cwriting,     \* client: tasks inside a write call on Client.conn
    cwire,        \* client: frames written on Client.conn, in order
    cdone,        \* client: Client.done has been closed
    cconnClosed,  \* client: Client.conn has been closed
    cnread        \* client: frames read so far by handleMessages

svars == <<clients, subdomain, gen, auth, query, send, closed, connClosed, writing, raced, wire,
           remoteGone,
           spc, wpc, rmsg, rch, wmsg, nread, panicked, old>>
avars == <<apc, ahost, acl, aid, ares, aenq, aresp>>
cvars == <<cpc, rpc, wk, writeMu, cwriting, cwire, cdone, cconnClosed, cnread>>
srvvars == <<svars, avars, pendingRequests, responseChan, placed, dropped, crashed>>
vars == <<srvvars, cvars>>

\* NewServer, and no connection or request yet
Init ==
    /\ clients = [l \in Labels |-> None]
    /\ pendingRequests = [i \in Ids |-> None]
    /\ subdomain = [s \in Sess |-> None]
    /\ gen = [s \in Sess |-> None]
    /\ auth = [s \in Sess |-> <<>>]
    /\ query = [s \in Sess |-> None]
    /\ send = [s \in Sess |-> <<>>]
    /\ closed = [s \in Sess |-> FALSE]
    /\ connClosed = [s \in Sess |-> FALSE]
    /\ writing = [s \in Sess |-> {}]
    /\ raced = [s \in Sess |-> {}]
    /\ wire = [s \in Sess |-> <<>>]
    /\ remoteGone = [s \in Sess |-> FALSE]
    /\ spc = [s \in Sess |-> "idle"]
    /\ wpc = [s \in Sess |-> "off"]
    /\ rmsg = [s \in Sess |-> NoMsg]
    /\ rch = [s \in Sess |-> None]
    /\ wmsg = [s \in Sess |-> NoMsg]
    /\ nread = [s \in Sess |-> 0]
    /\ panicked = [s \in Sess |-> FALSE]
    /\ crashed = FALSE
    /\ old = [s \in Sess |-> {}]
    /\ apc = [a \in Adapt |-> "idle"]
    /\ ahost = [a \in Adapt |-> <<>>]
    /\ acl = [a \in Adapt |-> None]
    /\ aid = [a \in Adapt |-> None]
    /\ ares = [a \in Adapt |-> "none"]
    /\ aenq = [a \in Adapt |-> FALSE]
    /\ aresp = [a \in Adapt |-> NoMsg]
    /\ responseChan = [a \in Adapt |-> <<>>]
    /\ placed = [a \in Adapt |-> 0]
    /\ dropped = {}
    /\ cpc = "idle"
    /\ rpc = "off"
    /\ wk = [w \in Workers |-> NoWork]
    /\ writeMu = None
    /\ cwriting = {}
    /\ cwire = <<>>
    /\ cdone = FALSE
    /\ cconnClosed = FALSE
    /\ cnread = 0

\* ------------------------------------------------------------- registry
\* isSubdomainAvailable
isSubdomainAvailable(reg, l) == reg[l] = None

\* getClient
getClient(reg, l) == reg[l]

\* registerClient: s.clients[subdomain] = client
registerClient(reg, l, s) == [reg EXCEPT ![l] = s]

\* an unregisterClient that leaves the entry in the registry
unregisterClientKept(reg, l) == reg

\* unregisterClient: the registry after delete(s.clients, subdomain)
unregisterClient(reg, l) == [reg EXCEPT ![l] = None]

\* unregisterClient closes the channel of the session found under l; closing a
\* closed channel panics before the delete.
unregisterPanics(reg, cl, l) == reg[l] # None /\ cl[reg[l]]

closeSend(reg, cl, l) ==
    IF reg[l] # None THEN [cl EXCEPT ![reg[l]] = TRUE] ELSE cl

\* ------------------------------------------------------------ transport
\* A write call on Client.conn fails at once on a closed or broken connection.
connDead(s) == connClosed[s] \/ remoteGone[s]

\* Task t enters a write call on session s's connection.  gorilla/websocket
\* supports one concurrent writer; a call that overlaps another one is a race.
BeginWrite(s, t) ==
    /\ writing' = [writing EXCEPT ![s] = @ \cup {t}]
    /\ raced' = IF writing[s] # {}
                THEN [raced EXCEPT ![s] = @ \cup writing[s] \cup {t}]
                ELSE raced

\* The outcomes of the write call that task t is leaving: an error on a dead
\* connection; the frame; and, when the call overlapped another one, also a
\* garbled frame or the library's "concurrent write" panic.
WriteOutcomes(s, t) ==
    IF connDead(s) THEN {"err"}
    ELSE IF t \in raced[s] THEN {"ok", "garbled", "panic"}
    ELSE {"ok"}

Garbled == Message("garbled", None, None)

\* Task t leaves its write call of frame m with outcome o.
EndWrite(s, t, m, o) ==
    /\ writing' = [writing EXCEPT ![s] = @ \ {t}]
    /\ raced' = [raced EXCEPT ![s] = @ \ {t}]
    /\ wire' = [wire EXCEPT ![s] =
                  IF o = "ok" THEN Append(@, m)
                  ELSE IF o = "garbled" THEN Append(@, Garbled)
                  ELSE @]

\* ----------------------------------------------------------- bounds
\* Task k of a family with positions pc may start: the tasks of a family are
\* interchangeable, so they start in the order of their numbers.
CanStart(pc, k) == IF k = 1 THEN TRUE ELSE pc[k - 1] # "idle"

RECURSIVE Sum(_, _)
Sum(f, S) == IF S = {} THEN 0
             ELSE LET k == CHOOSE k \in S : TRUE IN f[k] + Sum(f, S \ {k})

\* ------------------------------------------------- HandleWebSocket
\* Lines 98-102: the Authorization header differs from "Bearer "+s.token: 401
\* and return.  The answer is the only effect, so the session stays unconnected.
HandleWebSocketUnauthorized(s) ==
    /\ ~crashed
    /\ spc[s] = "idle"
    /\ CanStart(spc, s)
    /\ \E token \in AuthHeaders :
          /\ ~Authorized(token)
          /\ auth' = [auth EXCEPT ![s] = token]
    /\ spc' = [spc EXCEPT ![s] = "unauthorized"]
    /\ UNCHANGED <<clients, subdomain, gen, query, send, closed, connClosed, writing, raced,
                   wire, remoteGone, wpc, rmsg, rch, wmsg, nread, panicked, old,
                   avars, pendingRequests, responseChan, placed, dropped, crashed, cvars>>

\* Lines 98-108: the credential is accepted and s.upgrader.Upgrade fails (the
\* request is no WebSocket handshake); the error is logged and the handler
\* returns.
HandleWebSocketUpgradeFails(s) ==
    /\ ~crashed
    /\ spc[s] = "idle"
    /\ CanStart(spc, s)
    /\ \E token \in AuthHeaders :
          /\ Authorized(token)
          /\ auth' = [auth EXCEPT ![s] = token]
    /\ spc' = [spc EXCEPT ![s] = "upgrade_failed"]
    /\ UNCHANGED <<clients, subdomain, gen, query, send, closed, connClosed, writing, raced,
                   wire, remoteGone, wpc, rmsg, rch, wmsg, nread, panicked, old,
                   avars, pendingRequests, responseChan, placed, dropped, crashed, cvars>>

\* a connect that registers the session under the label of the query
\* parameter when the upgrade carries one
HandleWebSocketConnectChosen(s, g, q) ==
    /\ ~crashed
    /\ spc[s] = "idle"
    /\ CanStart(spc, s)
    /\ g <= s
    /\ \E token \in AuthHeaders :
          /\ Authorized(token)
          /\ auth' = [auth EXCEPT ![s] = token]
    /\ query' = [query EXCEPT ![s] = q]
    /\ subdomain' = [subdomain EXCEPT ![s] = IF q # None THEN q ELSE g]
    /\ gen' = [gen EXCEPT ![s] = IF q # None THEN q ELSE g]
    /\ clients' = registerClient(clients, IF q # None THEN q ELSE g, s)
    /\ spc' = [spc EXCEPT ![s] = "assign"]
    /\ UNCHANGED <<send, closed, connClosed, writing, raced,
                   wire, remoteGone, wpc, rmsg, rch, wmsg, nread, panicked, old,
                   avars, pendingRequests, responseChan, placed, dropped, crashed, cvars>>

\* Lines 98-117: credential accepted, upgrade of a request whose URL carries
\* the query parameter subdomain=q (client.go:69-71; None: no parameter), which
\* the handler never reads; generateSubdomain returns g (any label: 4 random
\* bytes), the Client is built with an open, empty channel and
\* s.registerClient(subdomain, client) stores it, with no availability check.
HandleWebSocketConnect(s, g, q) ==
    /\ ~crashed
    /\ spc[s] = "idle"
    /\ CanStart(spc, s)
    /\ g <= s      \* labels are interchangeable: session 1's is named 1
    /\ \E token \in AuthHeaders :
          /\ Authorized(token)
          /\ auth' = [auth EXCEPT ![s] = token]
    /\ query' = [query EXCEPT ![s] = q]
    /\ subdomain' = [subdomain EXCEPT ![s] = g]
    /\ gen' = [gen EXCEPT ![s] = g]
    /\ clients' = registerClient(clients, g, s)
    /\ spc' = [spc EXCEPT ![s] = "assign"]
    /\ UNCHANGED <<send, closed, connClosed, writing, raced,
                   wire, remoteGone, wpc, rmsg, rch, wmsg, nread, panicked, old,
                   avars, pendingRequests, responseChan, placed, dropped, crashed, cvars>>

\* The connect of a client that was started without a requested subdomain:
\* its upgrade carries no query parameter.
HandleWebSocketRegister(s, g) == HandleWebSocketConnect(s, g, None)

\* Lines 120-133: conn.WriteJSON(assignMsg); on error return (the deferred
\* unregisterClient runs); otherwise go writePump and enter readPump.  No other
\* task writes on the connection yet, so the call is one step.
HandleWebSocketAssign(s) ==
    /\ ~crashed
    /\ spc[s] = "assign"
    /\ IF connDead(s)
       THEN /\ spc' = [spc EXCEPT ![s] = "unregister"]
            /\ UNCHANGED <<wire, wpc>>
       ELSE /\ wire' = [wire EXCEPT ![s] =
                          Append(@, AssignMsg(gen[s]))]
            /\ wpc' = [wpc EXCEPT ![s] = "run"]
            /\ spc' = [spc EXCEPT ![s] = "read"]
    /\ UNCHANGED <<clients, subdomain, gen, auth, query, send, closed, connClosed, writing, raced,
                   remoteGone, rmsg, rch, wmsg, nread, panicked, old,
                   avars, pendingRequests, responseChan, placed, dropped, crashed, cvars>>

\* Line 118: the deferred s.unregisterClient(subdomain), run when readPump
\* returns, when the first write fails and when the handler panics.  It is
\* keyed on the generated label.  A close of a closed channel panics before
\* the delete; net/http recovers the handler's panic.
HandleWebSocketUnregister(s) ==
    /\ ~crashed
    /\ spc[s] = "unregister"
    /\ IF unregisterPanics(clients, closed, gen[s])
       THEN UNCHANGED <<clients, closed>>
       ELSE /\ closed' = closeSend(clients, closed, gen[s])
            /\ clients' = unregisterClient(clients, gen[s])
    /\ spc' = [spc EXCEPT ![s] = "done"]
    /\ panicked' = [panicked EXCEPT ![s] = @ \/ unregisterPanics(clients, closed, gen[s])]
    /\ UNCHANGED <<subdomain, gen, auth, query, send, connClosed, writing, raced,
                   wire, remoteGone, wpc, rmsg, rch, wmsg, nread, old,
                   avars, pendingRequests, responseChan, placed, dropped, crashed, cvars>>

\* The remote end closes or the transport breaks.
RemoteClose(s) ==
    /\ ~crashed
    /\ spc[s] \notin {"idle", "unauthorized", "upgrade_failed", "done"}
    /\ ~remoteGone[s]
    /\ remoteGone' = [remoteGone EXCEPT ![s] = TRUE]
    /\ UNCHANGED <<clients, subdomain, gen, auth, query, send, closed, connClosed, writing, raced,
                   wire, spc, wpc, rmsg, rch, wmsg, nread, panicked, old,
                   avars, pendingRequests, responseChan, placed, dropped, crashed, cvars>>

\* --------------------------------------------------------- readPump
\* Message{Type: "http_response", ID: i, ...} arriving on session s with the
\* local response to public request q
Response(i, s, q) == [Message("http_response", i, s) EXCEPT !.re = q]

\* the public requests whose http_request frame with ID i was written to the
\* client of session s
Forwarded(s, i) ==
    {wire[s][k].y : k \in {j \in DOMAIN wire[s] :
                              wire[s][j].type = "http_request" /\ wire[s][j].x = i}}

\* types of frames readPump's switch has no case for
OtherTypes == {"ping", "http_request", "subdomain_assigned", "error", "unknown"}

\* The frames a client may send: an http_response with any id, answering a
\* request it was sent under that id or none at all; any requested label; and
\* frames of another type.
Inbound(s) ==
    {Response(i, s, q) : i \in Ids, q \in {None}}
      \cup UNION {{Response(i, s, q) : q \in Forwarded(s, i)} : i \in Ids}
      \cup {Message("subdomain_request", l, None) : l \in Labels}
      \cup {Message(ty, None, None) : ty \in OtherTypes}

\* a lookup that takes the sink of any pending request, whatever the frame's ID
lookupPendingAnyId(tab, i) ==
    IF \A j \in Ids : tab[j] = None THEN None
    ELSE tab[CHOOSE j \in Ids : tab[j] # None]

\* Lines 177-179: ch, ok := s.pendingRequests[msg.ID], one RLock section
lookupPending(tab, i) == tab[i]

\* Lines 139-153, 177-184 and 188: ReadJSON returns the next frame and the
\* switch dispatches it.  The frame's arrival changes nothing shared, so the
\* step runs up to the first critical section of its handler: for an
\* http_response the lookup of the sink (without an entry the frame is logged
\* and dropped), for a subdomain_request the availability check.  Any other
\* frame is ignored.
ReadPumpRead(s, m) ==
    /\ ~crashed
    /\ spc[s] = "read"
    /\ ~connDead(s)
    /\ Sum(nread, Sess) < MaxFrames
    /\ nread' = [nread EXCEPT ![s] = @ + 1]
    /\ IF m.type = "http_response"
       THEN /\ rch' = [rch EXCEPT ![s] = lookupPending(pendingRequests, m.x)]
            /\ IF lookupPending(pendingRequests, m.x) # None
               THEN /\ spc' = [spc EXCEPT ![s] = "hr_send"]
                    /\ rmsg' = [rmsg EXCEPT ![s] = m]
                    /\ UNCHANGED dropped
               ELSE /\ dropped' = dropped \cup {<<m.x, m.re>>}
                    /\ UNCHANGED <<spc, rmsg>>
       ELSE IF m.type = "subdomain_request"
       THEN /\ spc' = [spc EXCEPT ![s] =
                         IF isSubdomainAvailable(clients, m.x)
                         THEN "sr_unregister" ELSE "sr_error"]
            /\ rmsg' = [rmsg EXCEPT ![s] = m]
            /\ UNCHANGED <<rch, dropped>>
       ELSE UNCHANGED <<spc, rmsg, rch, dropped>>
    /\ UNCHANGED <<clients, subdomain, gen, auth, query, send, closed, connClosed, writing, raced,
                   wire, remoteGone, wpc, wmsg, panicked, old,
                   avars, pendingRequests, responseChan, placed, crashed, cvars>>

\* Lines 141-146 and 137: ReadJSON fails (connection closed here or remotely),
\* the loop breaks and the deferred conn.Close runs; also the unwinding of a
\* panic raised inside the loop.
ReadPumpClose(s) ==
    /\ ~crashed
    /\ \/ spc[s] = "read" /\ connDead(s)
       \/ spc[s] = "rp_close"
    /\ connClosed' = [connClosed EXCEPT ![s] = TRUE]
    /\ spc' = [spc EXCEPT ![s] = "unregister"]
    /\ UNCHANGED <<clients, subdomain, gen, auth, query, send, closed, writing, raced,
                   wire, remoteGone, wpc, rmsg, rch, wmsg, nread, panicked, old,
                   avars, pendingRequests, responseChan, placed, dropped, crashed, cvars>>

\* ----------------------------------------------- handleHTTPResponse
\* a channel whose buffer takes every frame
CanSendAlways(ch, cap) == TRUE

\* a send on a buffered channel proceeds only while the buffer has room
\* (no receiver is waiting once the adapter has left its select)
CanSend(ch, cap) == Len(ch) < cap

\* Line 181: ch <- msg, a blocking send after the lock was released.
HandleHTTPResponseSend(s) ==
    /\ ~crashed
    /\ spc[s] = "hr_send"
    /\ CanSend(responseChan[rch[s]], SinkCap)
    /\ responseChan' = [responseChan EXCEPT ![rch[s]] = Append(@, rmsg[s])]
    /\ placed' = [placed EXCEPT ![rch[s]] = @ + 1]
    /\ spc' = [spc EXCEPT ![s] = "read"]
    /\ rmsg' = [rmsg EXCEPT ![s] = NoMsg]
    /\ rch' = [rch EXCEPT ![s] = None]
    /\ UNCHANGED <<clients, subdomain, gen, auth, query, send, closed, connClosed, writing, raced,
                   wire, remoteGone, wpc, wmsg, nread, panicked, old,
                   avars, pendingRequests, dropped, crashed, cvars>>

\* ------------------------------------------- handleSubdomainRequest
\* Line 189: s.unregisterClient(client.subdomain), one Lock section: it closes
\* the channel of the session found under the label and deletes the entry.  A
\* close of a closed channel panics; the panic unwinds readPump.
HandleSubdomainRequestUnregister(s) ==
    /\ ~crashed
    /\ spc[s] = "sr_unregister"
    /\ IF unregisterPanics(clients, closed, subdomain[s])
       THEN /\ spc' = [spc EXCEPT ![s] = "rp_close"]
            /\ panicked' = [panicked EXCEPT ![s] = TRUE]
            /\ rmsg' = [rmsg EXCEPT ![s] = NoMsg]
            /\ UNCHANGED <<clients, closed>>
       ELSE /\ closed' = closeSend(clients, closed, subdomain[s])
            /\ clients' = unregisterClient(clients, subdomain[s])
            /\ spc' = [spc EXCEPT ![s] = "sr_register"]
            /\ UNCHANGED <<panicked, rmsg>>
    /\ UNCHANGED <<subdomain, gen, auth, query, send, connClosed, writing, raced,
                   wire, remoteGone, wpc, rch, wmsg, nread, old,
                   avars, pendingRequests, responseChan, placed, dropped, crashed, cvars>>

\* Lines 190-191: client.subdomain = msg.RequestedSubdomain (read by this task
\* only) and s.registerClient(msg.RequestedSubdomain, client), one Lock section.
HandleSubdomainRequestRegister(s) ==
    /\ ~crashed
    /\ spc[s] = "sr_register"
    /\ old' = [old EXCEPT ![s] = @ \cup {subdomain[s]}]
    /\ subdomain' = [subdomain EXCEPT ![s] = rmsg[s].x]
    /\ clients' = registerClient(clients, rmsg[s].x, s)
    /\ spc' = [spc EXCEPT ![s] = "sr_assign"]
    /\ UNCHANGED <<gen, auth, query, send, closed, connClosed, writing, raced,
                   wire, remoteGone, wpc, rmsg, rch, wmsg, nread, panicked,
                   avars, pendingRequests, responseChan, placed, dropped, crashed, cvars>>

\* the frame handleSubdomainRequest answers with (lines 193-196, 204-207)
Reply(pc, l) ==
    IF pc \in {"sr_assign", "sr_assigning"}
    THEN AssignMsg(l)
    ELSE Message("error", l, None)

\* Lines 198 and 208: client.conn.WriteJSON called by the reader task itself.
\* The call fails at once on a dead connection (the error is logged or dropped).
HandleSubdomainRequestWrite(s) ==
    /\ ~crashed
    /\ spc[s] \in {"sr_assign", "sr_error"}
    /\ IF connDead(s)
       THEN /\ spc' = [spc EXCEPT ![s] = "read"]
            /\ rmsg' = [rmsg EXCEPT ![s] = NoMsg]
            /\ UNCHANGED <<writing, raced>>
       ELSE /\ BeginWrite(s, "r")
            /\ spc' = [spc EXCEPT ![s] =
                         IF spc[s] = "sr_assign" THEN "sr_assigning" ELSE "sr_erroring"]
            /\ UNCHANGED rmsg
    /\ UNCHANGED <<clients, subdomain, gen, auth, query, send, closed, connClosed,
                   wire, remoteGone, wpc, rch, wmsg, nread, panicked, old,
                   avars, pendingRequests, responseChan, placed, dropped, crashed, cvars>>

\* The reader's write call returns; a "concurrent write" panic unwinds readPump.
HandleSubdomainRequestWritten(s, o) ==
    /\ ~crashed
    /\ spc[s] \in {"sr_assigning", "sr_erroring"}
    /\ o \in WriteOutcomes(s, "r")
    /\ EndWrite(s, "r", Reply(spc[s], rmsg[s].x), o)
    /\ spc' = [spc EXCEPT ![s] = IF o = "panic" THEN "rp_close" ELSE "read"]
    /\ panicked' = [panicked EXCEPT ![s] = @ \/ (o = "panic")]
    /\ rmsg' = [rmsg EXCEPT ![s] = NoMsg]
    /\ UNCHANGED <<clients, subdomain, gen, auth, query, send, closed, connClosed,
                   remoteGone, wpc, rch, wmsg, nread, old,
                   avars, pendingRequests, responseChan, placed, dropped, crashed, cvars>>

\* -------------------------------------------------------- writePump
\* a writePump that receives the newest frame of the queue
WritePumpReceiveNewest(s) ==
    /\ ~crashed
    /\ wpc[s] = "run"
    /\ send[s] # <<>> \/ closed[s]
    /\ IF send[s] # <<>>
       THEN send' = [send EXCEPT ![s] = SubSeq(@, 1, Len(@) - 1)]
       ELSE UNCHANGED send
    /\ IF connDead(s)
       THEN /\ wpc' = [wpc EXCEPT ![s] = "exit"]
            /\ UNCHANGED <<writing, raced>>
       ELSE /\ BeginWrite(s, "w")
            /\ wpc' = [wpc EXCEPT ![s] = "writing"]
    /\ wmsg' = [wmsg EXCEPT ![s] =
                  IF connDead(s) THEN NoMsg
                  ELSE IF send[s] # <<>> THEN send[s][Len(send[s])]
                  ELSE Message("close", None, None)]
    /\ UNCHANGED <<clients, subdomain, gen, auth, query, closed, connClosed,
                   wire, remoteGone, spc, rmsg, rch, nread, panicked, old,
                   avars, pendingRequests, responseChan, placed, dropped, crashed, cvars>>

\* Lines 160-166: msg, ok := <-client.send.  Buffered frames are received
\* before the close is seen; the write call of the frame (or of the close
\* message) starts.  On a dead connection the call fails at once.
WritePumpReceive(s) ==
    /\ ~crashed
    /\ wpc[s] = "run"
    /\ send[s] # <<>> \/ closed[s]
    /\ IF send[s] # <<>>
       THEN send' = [send EXCEPT ![s] = Tail(@)]
       ELSE UNCHANGED send
    /\ IF connDead(s)
       THEN /\ wpc' = [wpc EXCEPT ![s] = "exit"]
            /\ UNCHANGED <<writing, raced>>
       ELSE /\ BeginWrite(s, "w")
            /\ wpc' = [wpc EXCEPT ![s] = "writing"]
    /\ wmsg' = [wmsg EXCEPT ![s] =
                  IF connDead(s) THEN NoMsg
                  ELSE IF send[s] # <<>> THEN Head(send[s])
                  ELSE Message("close", None, None)]
    /\ UNCHANGED <<clients, subdomain, gen, auth, query, closed, connClosed,
                   wire, remoteGone, spc, rmsg, rch, nread, panicked, old,
                   avars, pendingRequests, responseChan, placed, dropped, crashed, cvars>>

\* Lines 164-171: the write call returns.  After the close message, or on an
\* error, writePump returns; a "concurrent write" panic in this task is not
\* recovered and ends the process.
WritePumpWritten(s, o) ==
    /\ ~crashed
    /\ wpc[s] = "writing"
    /\ o \in WriteOutcomes(s, "w")
    /\ EndWrite(s, "w", wmsg[s], o)
    /\ crashed' = (o = "panic")
    /\ wpc' = [wpc EXCEPT ![s] =
                 IF o = "ok" /\ wmsg[s].type # "close" THEN "run"
                 ELSE IF o = "garbled" /\ wmsg[s].type # "close" THEN "run"
                 ELSE "exit"]
    /\ wmsg' = [wmsg EXCEPT ![s] = NoMsg]
    /\ UNCHANGED <<clients, subdomain, gen, auth, query, send, closed, connClosed,
                   remoteGone, spc, rmsg, rch, nread, panicked, old,
                   avars, pendingRequests, responseChan, placed, dropped, cvars>>

\* Line 158: the deferred client.conn.Close().
WritePumpClose(s) ==
    /\ ~crashed
    /\ wpc[s] = "exit"
    /\ connClosed' = [connClosed EXCEPT ![s] = TRUE]
    /\ wpc' = [wpc EXCEPT ![s] = "done"]
    /\ UNCHANGED <<clients, subdomain, gen, auth, query, send, closed, writing, raced,
                   wire, remoteGone, spc, rmsg, rch, wmsg, nread, panicked, old,
                   avars, pendingRequests, responseChan, placed, dropped, crashed, cvars>>

\* ------------------------------------------------ HandleHTTPRequest
\* Lines 213-225: a Host without a dot is answered 400; otherwise the label is
\* the part before the first dot and getClient looks it up (one RLock
\* section); a miss is answered 404.
HandleHTTPRequestLookup(a, host) ==
    /\ ~crashed
    /\ apc[a] = "idle"
    /\ CanStart(apc, a)
    /\ ahost' = [ahost EXCEPT ![a] = host]
    /\ IF ~ContainsDot(host)
       THEN /\ ares' = [ares EXCEPT ![a] = "400"]
            /\ apc' = [apc EXCEPT ![a] = "done"]
            /\ UNCHANGED acl
       ELSE IF getClient(clients, SplitFirst(host)) = None
       THEN /\ ares' = [ares EXCEPT ![a] = "404"]
            /\ apc' = [apc EXCEPT ![a] = "done"]
            /\ UNCHANGED acl
       ELSE /\ acl' = [acl EXCEPT ![a] = getClient(clients, SplitFirst(host))]
            /\ apc' = [apc EXCEPT ![a] = "insert"]
            /\ UNCHANGED ares
    /\ UNCHANGED <<svars, aid, aenq, aresp, pendingRequests, responseChan, placed, dropped, crashed, cvars>>

\* Lines 227-231: io.ReadAll(r.Body) fails: 500, before any pending entry.
HandleHTTPRequestBodyError(a) ==
    /\ ~crashed
    /\ apc[a] = "insert"
    /\ ares' = [ares EXCEPT ![a] = "500"]
    /\ apc' = [apc EXCEPT ![a] = "done"]
    /\ UNCHANGED <<svars, ahost, acl, aid, aenq, aresp, pendingRequests, responseChan,
                   placed, dropped, crashed, cvars>>

\* s.pendingRequests[requestID] = responseChan
insertPending(tab, i, a) == [tab EXCEPT ![i] = a]

\* the deferred delete forgotten
deletePendingSkipped(tab, i) == tab

\* delete(s.pendingRequests, requestID)
deletePending(tab, i) == [tab EXCEPT ![i] = None]

\* Lines 240-245: generateSubdomain returns i (4 random bytes, nothing keeps
\* it distinct from the ids in the table), the sink is made and inserted in
\* one Lock section.
HandleHTTPRequestInsert(a, i) ==
    /\ ~crashed
    /\ apc[a] = "insert"
    /\ i <= a      \* ids are interchangeable: adapter 1's is named 1
    /\ aid' = [aid EXCEPT ![a] = i]
    /\ pendingRequests' = insertPending(pendingRequests, i, a)
    /\ apc' = [apc EXCEPT ![a] = "enqueue"]
    /\ UNCHANGED <<svars, ahost, acl, ares, aenq, aresp, responseChan, placed, dropped, crashed, cvars>>

\* Lines 262-263 and 276-277: select { case client.send <- msg: ... default: }.
\* A send on a closed channel panics (net/http recovers it, the deferred
\* delete runs and the caller gets no response); a full buffer takes the
\* default branch, 503.
HandleHTTPRequestEnqueueCap(a, cap) ==
    /\ ~crashed
    /\ apc[a] = "enqueue"
    /\ IF closed[acl[a]]
       THEN /\ ares' = [ares EXCEPT ![a] = "panic"]
            /\ apc' = [apc EXCEPT ![a] = "cleanup"]
            /\ UNCHANGED <<send, aenq>>
       ELSE IF CanSend(send[acl[a]], cap)
       THEN /\ send' = [send EXCEPT ![acl[a]] =
                          Append(@, Message("http_request", aid[a], a))]
            /\ aenq' = [aenq EXCEPT ![a] = TRUE]
            /\ apc' = [apc EXCEPT ![a] = "wait"]
            /\ UNCHANGED ares
       ELSE /\ ares' = [ares EXCEPT ![a] = "503"]
            /\ apc' = [apc EXCEPT ![a] = "cleanup"]
            /\ UNCHANGED <<send, aenq>>
    /\ UNCHANGED <<clients, subdomain, gen, auth, query, closed, connClosed, writing, raced,
                   wire, remoteGone, spc, wpc, rmsg, rch, wmsg, nread, panicked, old,
                   ahost, acl, aid, aresp, pendingRequests, responseChan, placed, dropped, crashed, cvars>>

\* The enqueue with the capacity of the scaled-down queue.
HandleHTTPRequestEnqueue(a) == HandleHTTPRequestEnqueueCap(a, QueueCap)

\* Lines 265-270: resp := <-responseChan; status, headers and body are copied
\* to the public response.
HandleHTTPRequestRelay(a) ==
    /\ ~crashed
    /\ apc[a] = "wait"
    /\ responseChan[a] # <<>>
    /\ aresp' = [aresp EXCEPT ![a] = Head(responseChan[a])]
    /\ responseChan' = [responseChan EXCEPT ![a] = Tail(@)]
    /\ ares' = [ares EXCEPT ![a] = "relayed"]
    /\ apc' = [apc EXCEPT ![a] = "cleanup"]
    /\ UNCHANGED <<svars, ahost, acl, aid, aenq, pendingRequests, placed, dropped, crashed, cvars>>

\* an adapter that gives up and returns without the deferred delete
HandleHTTPRequestGiveUpLeaves(a, status) ==
    /\ ~crashed
    /\ apc[a] = "wait"
    /\ status \in {"504", "408"}
    /\ ares' = [ares EXCEPT ![a] = status]
    /\ apc' = [apc EXCEPT ![a] = "done"]
    /\ UNCHANGED <<svars, ahost, acl, aid, aenq, aresp, pendingRequests, responseChan,
                   placed, dropped, crashed, cvars>>

\* Lines 271-274: the 30-second timer fires (504) or the caller's context is
\* done (408); either may win the select also when a frame is in the sink.
HandleHTTPRequestGiveUp(a, status) ==
    /\ ~crashed
    /\ apc[a] = "wait"
    /\ status \in {"504", "408"}
    /\ ares' = [ares EXCEPT ![a] = status]
    /\ apc' = [apc EXCEPT ![a] = "cleanup"]
    /\ UNCHANGED <<svars, ahost, acl, aid, aenq, aresp, pendingRequests, responseChan,
                   placed, dropped, crashed, cvars>>

\* Lines 247-251: the deferred delete(s.pendingRequests, requestID), one Lock
\* section, after the response was written.
HandleHTTPRequestCleanup(a) ==
    /\ ~crashed
    /\ apc[a] = "cleanup"
    /\ pendingRequests' = deletePending(pendingRequests, aid[a])
    /\ apc' = [apc EXCEPT ![a] = "done"]
    /\ UNCHANGED <<svars, ahost, acl, aid, ares, aenq, aresp, responseChan, placed, dropped, crashed, cvars>>

\* =============================================================== client
\* ------------------------------------------------------------ writeMu
\* a Lock that does not wait for the holder
CanLockAlways(mu) == TRUE

\* c.writeMu.Lock() returns only while no task holds the mutex
CanLock(mu) == mu = None

\* ---------------------------------------------------------------- Run
\* Lines 208-210: connect fails and Run returns the error.
RunConnectFails ==
    /\ cpc = "idle"
    /\ cpc' = "returned"
    /\ UNCHANGED <<rpc, wk, writeMu, cwriting, cwire, cdone, cconnClosed, cnread, srvvars>>

\* Lines 208-219: connect succeeds, go c.handleMessages(), and Run waits in
\* its select.
RunConnect ==
    /\ cpc = "idle"
    /\ cpc' = "select"
    /\ rpc' = "read"
    /\ UNCHANGED <<wk, writeMu, cwriting, cwire, cdone, cconnClosed, cnread, srvvars>>

\* Lines 220-221: <-c.done, the connection was closed; Run returns.
RunDone ==
    /\ cpc = "select"
    /\ cdone
    /\ cpc' = "returned"
    /\ UNCHANGED <<rpc, wk, writeMu, cwriting, cwire, cdone, cconnClosed, cnread, srvvars>>

\* Lines 222-223: <-interrupt, the user's interrupt or SIGTERM.
RunInterrupt ==
    /\ cpc = "select"
    /\ cpc' = "lock"
    /\ UNCHANGED <<rpc, wk, writeMu, cwriting, cwire, cdone, cconnClosed, cnread, srvvars>>

\* Lines 225-226: c.writeMu.Lock() and the call of c.conn.WriteMessage.
RunLock ==
    /\ cpc = "lock"
    /\ CanLock(writeMu)
    /\ writeMu' = Main
    /\ cwriting' = cwriting \cup {Main}
    /\ cpc' = "write"
    /\ UNCHANGED <<rpc, wk, cwire, cdone, cconnClosed, cnread, srvvars>>

\* Lines 226-231: WriteMessage returns (an error on a closed connection is
\* logged) and c.writeMu.Unlock().
RunClose ==
    /\ cpc = "write"
    /\ cwire' = IF cconnClosed THEN cwire ELSE Append(cwire, CloseFrame)
    /\ cwriting' = cwriting \ {Main}
    /\ writeMu' = None
    /\ cpc' = "wait"
    /\ UNCHANGED <<rpc, wk, cdone, cconnClosed, cnread, srvvars>>

\* a wait for the reader alone, without the one-second timer
RunWaitForReader ==
    /\ cpc = "wait"
    /\ cdone
    /\ cpc' = "returned"
    /\ UNCHANGED <<rpc, wk, writeMu, cwriting, cwire, cdone, cconnClosed, cnread, srvvars>>

\* Lines 233-239: <-c.done or one second has passed; Run returns.
RunWait ==
    /\ cpc = "wait"
    /\ cpc' = "returned"
    /\ UNCHANGED <<rpc, wk, writeMu, cwriting, cwire, cdone, cconnClosed, cnread, srvvars>>

\* ----------------------------------------------------- handleMessages
\* the frames the server may send
ClientInbound ==
    {Message("http_request", i, None) : i \in Ids}
      \cup {Message(ty, None, None) :
               ty \in {"subdomain_assigned", "http_response", "error", "unknown"}}

\* the goroutine started for the next http_request
NextWorker == CHOOSE w \in Workers : wk[w].pc = "free" /\ \A v \in Workers : wk[v].pc = "free" => w <= v

\* a reader that calls forwardRequest itself: it reads the next frame only
\* when no request is being forwarded
HandleMessagesReadSerial(m) ==
    /\ rpc = "read"
    /\ ~cconnClosed
    /\ cnread < MaxClientFrames
    /\ \A w \in Workers : wk[w].pc \in {"free", "done"}
    /\ cnread' = cnread + 1
    /\ IF m.type = "http_request"
       THEN /\ \E w \in Workers : wk[w].pc = "free"
            /\ wk' = [wk EXCEPT ![NextWorker] = [NoWork EXCEPT !.pc = "run", !.id = m.x]]
       ELSE UNCHANGED wk
    /\ UNCHANGED <<cpc, rpc, writeMu, cwriting, cwire, cdone, cconnClosed, srvvars>>

\* a reader that returns when it reads a frame of a type it has no use for
HandleMessagesReadStrict(m) ==
    /\ rpc = "read"
    /\ ~cconnClosed
    /\ cnread < MaxClientFrames
    /\ cnread' = cnread + 1
    /\ IF m.type = "http_request"
       THEN /\ \E w \in Workers : wk[w].pc = "free"
            /\ wk' = [wk EXCEPT ![NextWorker] = [NoWork EXCEPT !.pc = "run", !.id = m.x]]
            /\ UNCHANGED <<rpc, cdone, cconnClosed>>
       ELSE /\ rpc' = "done"
            /\ cdone' = TRUE
            /\ cconnClosed' = TRUE
            /\ UNCHANGED wk
    /\ UNCHANGED <<cpc, writeMu, cwriting, cwire, srvvars>>

\* Lines 91-121: ReadJSON returns frame m and the switch dispatches it: an
\* http_request starts go c.forwardRequest(msg); an http_response finds no
\* entry in c.pendingRequests, which nothing fills; the other types only
\* print or log.
HandleMessagesRead(m) ==
    /\ rpc = "read"
    /\ ~cconnClosed
    /\ cnread < MaxClientFrames
    /\ cnread' = cnread + 1
    /\ IF m.type = "http_request"
       THEN /\ \E w \in Workers : wk[w].pc = "free"
            /\ wk' = [wk EXCEPT ![NextWorker] = [NoWork EXCEPT !.pc = "run", !.id = m.x]]
       ELSE UNCHANGED wk
    /\ UNCHANGED <<cpc, rpc, writeMu, cwriting, cwire, cdone, cconnClosed, srvvars>>

\* Lines 93-98 and 89: ReadJSON fails (the connection was closed by either
\* end), close(c.done), return, and the deferred c.conn.Close().
HandleMessagesClose ==
    /\ rpc = "read"
    /\ rpc' = "done"
    /\ cdone' = TRUE
    /\ cconnClosed' = TRUE
    /\ UNCHANGED <<cpc, wk, writeMu, cwriting, cwire, cnread, srvvars>>

\* ----------------------------------------------------- forwardRequest
\* Lines 126-172: the request to the local service.  http.NewRequest fails,
\* client.Do fails or io.ReadAll fails, each with an error text, and
\* sendErrorResponse builds the status 500 frame (lines 135, 148, 155,
\* 186-194); or the local response is read and the frame is built from it.
ForwardRequestLocal(w, ok, text) ==
    /\ wk[w].pc = "run"
    /\ wk' = [wk EXCEPT ![w] = [@ EXCEPT !.pc = "lock",
                                        !.kind = IF ok THEN "local" ELSE "error",
                                        !.text = IF ok THEN <<>> ELSE text]]
    /\ UNCHANGED <<cpc, rpc, writeMu, cwriting, cwire, cdone, cconnClosed, cnread, srvvars>>

\* Lines 174-175 and 196-197: c.writeMu.Lock() and the call of
\* c.conn.WriteJSON(response).
ForwardRequestLock(w) ==
    /\ wk[w].pc = "lock"
    /\ CanLock(writeMu)
    /\ writeMu' = w
    /\ cwriting' = cwriting \cup {w}
    /\ wk' = [wk EXCEPT ![w] = [@ EXCEPT !.pc = "write", !.sent = @ + 1]]
    /\ UNCHANGED <<cpc, rpc, cwire, cdone, cconnClosed, cnread, srvvars>>

\* Lines 175-182 and 197-204: WriteJSON returns (an error on a closed
\* connection is logged), c.writeMu.Unlock(), and the goroutine ends.
ForwardRequestWrite(w) ==
    /\ wk[w].pc = "write"
    /\ cwire' = IF cconnClosed THEN cwire ELSE Append(cwire, ClientResponse(wk[w]))
    /\ cwriting' = cwriting \ {w}
    /\ writeMu' = None
    /\ wk' = [wk EXCEPT ![w] = [@ EXCEPT !.pc = "done"]]
    /\ UNCHANGED <<cpc, rpc, cdone, cconnClosed, cnread, srvvars>>

\* The client.
ClientNext ==
    \/ RunConnectFails
    \/ RunConnect
    \/ RunDone
    \/ RunInterrupt
    \/ RunLock
    \/ RunClose
    \/ RunWait
    \/ \E m \in ClientInbound : HandleMessagesRead(m)
    \/ HandleMessagesClose
    \/ \E w \in Workers, ok \in BOOLEAN, text \in ErrTexts : ForwardRequestLocal(w, ok, text)
    \/ \E w \in Workers : ForwardRequestLock(w)
    \/ \E w \in Workers : ForwardRequestWrite(w)

SpecClient == Init /\ [][ClientNext]_vars

\* The client under the scheduling Run relies on: a write call on the
\* connection returns, a Lock returns once the mutex stays free, a select
\* with a ready case is left, and the one-second timer fires.  Nothing makes
\* the reader fail, the user interrupt or the local service answer.
SpecClientLive ==
    /\ Init /\ [][ClientNext]_vars
    /\ WF_vars(RunDone)
    /\ WF_vars(RunLock)
    /\ WF_vars(RunClose)
    /\ WF_vars(RunWait)
    /\ \A w \in Workers : WF_vars(ForwardRequestWrite(w))

\* ------------------------------------------------------------- system
FrameTypes == {"http_response", "subdomain_request", "ping"}

\* HandleWebSocket, the end of readPump, and writePump, for the sessions S
ConnectionNext(S) ==
    \/ \E s \in S : HandleWebSocketUnauthorized(s)
    \/ \E s \in S : HandleWebSocketUpgradeFails(s)
    \/ \E s \in S, g \in Labels : HandleWebSocketRegister(s, g)
    \/ \E s \in S : HandleWebSocketAssign(s)
    \/ \E s \in S : HandleWebSocketUnregister(s)
    \/ \E s \in S : RemoteClose(s)
    \/ \E s \in S : ReadPumpClose(s)
    \/ \E s \in S : WritePumpReceive(s)
    \/ \E s \in S : \E o \in {"ok", "err", "garbled", "panic"} : WritePumpWritten(s, o)
    \/ \E s \in S : WritePumpClose(s)

\* readPump of the sessions S, whose clients send frames of the types T
InboundNext(S, T) ==
    \E s \in S : \E m \in {f \in Inbound(s) : f.type \in T} : ReadPumpRead(s, m)

\* handleSubdomainRequest
RenameNext(S) ==
    \/ \E s \in S : HandleSubdomainRequestUnregister(s)
    \/ \E s \in S : HandleSubdomainRequestRegister(s)
    \/ \E s \in S : HandleSubdomainRequestWrite(s)
    \/ \E s \in S : \E o \in {"ok", "err", "garbled", "panic"} :
          HandleSubdomainRequestWritten(s, o)

\* handleHTTPResponse
DeliverNext(S) ==
    \E s \in S : HandleHTTPResponseSend(s)

\* HandleHTTPRequest, for the adapters A
AdapterNext(A) ==
    \/ \E a \in A, host \in Hosts : HandleHTTPRequestLookup(a, host)
    \/ \E a \in A : HandleHTTPRequestBodyError(a)
    \/ \E a \in A, i \in Ids : HandleHTTPRequestInsert(a, i)
    \/ \E a \in A : HandleHTTPRequestEnqueue(a)
    \/ \E a \in A : HandleHTTPRequestRelay(a)
    \/ \E a \in A, status \in {"504", "408"} : HandleHTTPRequestGiveUp(a, status)
    \/ \E a \in A : HandleHTTPRequestCleanup(a)

\* The whole server, and a client.
Next ==
    \/ ConnectionNext(Sess)
    \/ InboundNext(Sess, FrameTypes)
    \/ RenameNext(Sess)
    \/ DeliverNext(Sess)
    \/ AdapterNext(Adapt)
    \/ ClientNext

Spec == Init /\ [][Next]_vars

\* The registry under connects, renames and disconnects of every session:
\* clients send subdomain_request frames and no public request arrives.
NextRegistry ==
    \/ ConnectionNext(Sess)
    \/ InboundNext(Sess, {"subdomain_request"})
    \/ RenameNext(Sess)

SpecRegistry == Init /\ [][NextRegistry]_vars

\* Routing of one public request to one session that connects, renames,
\* answers and disconnects.
NextRouting ==
    \/ ConnectionNext({1})
    \/ InboundNext({1}, FrameTypes)
    \/ RenameNext({1})
    \/ DeliverNext({1})
    \/ AdapterNext({1})

SpecRouting == Init /\ [][NextRouting]_vars

\* The steps the server takes by itself for the sessions S and the adapters
\* A: every step but the arrival of a connection, of a frame or of a public
\* request, the loss of a connection and a failure to read a request's body.
\* The 30-second timer and the caller's context are among them.
ServerSteps(S, A) ==
    \/ \E s \in S : HandleWebSocketAssign(s)
    \/ \E s \in S : HandleWebSocketUnregister(s)
    \/ \E s \in S : ReadPumpClose(s)
    \/ \E s \in S : WritePumpReceive(s)
    \/ \E s \in S : \E o \in {"ok", "err", "garbled", "panic"} : WritePumpWritten(s, o)
    \/ \E s \in S : WritePumpClose(s)
    \/ RenameNext(S)
    \/ DeliverNext(S)
    \/ \E a \in A, i \in Ids : HandleHTTPRequestInsert(a, i)
    \/ \E a \in A : HandleHTTPRequestEnqueue(a)
    \/ \E a \in A : HandleHTTPRequestRelay(a)
    \/ \E a \in A, status \in {"504", "408"} : HandleHTTPRequestGiveUp(a, status)
    \/ \E a \in A : HandleHTTPRequestCleanup(a)

\* Routing under the scheduling the server relies on: a task that can take a
\* step takes it.
SpecRoutingLive == SpecRouting /\ WF_vars(ServerSteps({1}, {1}))

\* writePump of one session that connects, renames and disconnects while the
\* public requests for registered-looking hosts, with distinct ids, enqueue
\* to it: the queue can hold two frames, and the reader's direct writes can
\* overlap the writer's.
NextWriter ==
    \/ ConnectionNext({1})
    \/ InboundNext({1}, {"subdomain_request"})
    \/ RenameNext({1})
    \/ \E a \in Adapt, l \in Labels : HandleHTTPRequestLookup(a, Fqdn(l))
    \/ \E a \in Adapt : HandleHTTPRequestInsert(a, a)
    \/ \E a \in Adapt : HandleHTTPRequestEnqueueCap(a, WriterCap)
    \/ \E a \in Adapt, status \in {"504", "408"} : HandleHTTPRequestGiveUp(a, status)
    \/ \E a \in Adapt : HandleHTTPRequestCleanup(a)

SpecWriter == Init /\ [][NextWriter]_vars

\* The pending table under the public requests to one session whose client
\* sends http_response frames.
NextPending ==
    \/ ConnectionNext({1})
    \/ InboundNext({1}, {"http_response"})
    \/ DeliverNext({1})
    \/ AdapterNext(Adapt)

SpecPending == Init /\ [][NextPending]_vars

\* HandleWebSocket and writePump of the sessions S while their connections
\* stay up
ConnectedNext(S) ==
    \/ \E s \in S, g \in Labels : HandleWebSocketRegister(s, g)
    \/ \E s \in S : HandleWebSocketAssign(s)
    \/ \E s \in S : WritePumpReceive(s)
    \/ \E s \in S : \E o \in {"ok", "err", "garbled", "panic"} : WritePumpWritten(s, o)

\* Delivery of the responses of every session's client to the public requests
\* in flight, while the sessions stay connected and none renames.
NextDelivery ==
    \/ ConnectedNext(Sess)
    \/ InboundNext(Sess, {"http_response"})
    \/ DeliverNext(Sess)
    \/ AdapterNext(Adapt)

SpecDelivery == Init /\ [][NextDelivery]_vars

\* Run and handleMessages of a client whose server sends frames of the types
\* T, up to the start of its workers and without an interrupt
ClientReaderNext(T) ==
    \/ RunConnectFails
    \/ RunConnect
    \/ RunDone
    \/ \E m \in {f \in ClientInbound : f.type \in T} : HandleMessagesRead(m)
    \/ HandleMessagesClose

\* The readers of both ends under frames they have no use for: one session
\* with one public request, whose client sends http_response frames and
\* frames of other types, and a client that is sent http_request, error and
\* unknown frames.
NextFrames ==
    \/ ConnectionNext({1})
    \/ InboundNext({1}, {"http_response"} \cup OtherTypes)
    \/ DeliverNext({1})
    \/ AdapterNext({1})
    \/ ClientReaderNext({"http_request", "error", "unknown"})

SpecFrames == Init /\ [][NextFrames]_vars

\* The registry when clients connect with and without a subdomain query
\* parameter and disconnect, and the first of them renames.
NextConnect ==
    \/ \E s \in Sess, g \in Labels, q \in Labels : HandleWebSocketConnect(s, g, q)
    \/ ConnectionNext(Sess)
    \/ InboundNext({1}, {"subdomain_request"})
    \/ RenameNext({1})

SpecConnect == Init /\ [][NextConnect]_vars

\* ============================================================== claims
\* the label a public request was routed by
RoutedLabel(a) == SplitFirst(ahost[a])

\* the label session s is asking for
Requested(s) == IF rmsg[s].type = "subdomain_request" THEN {rmsg[s].x} ELSE {}

\* No connect was given a label that another session holds or has held:
\* generateSubdomain's 4 random bytes did not collide.
NoCollision ==
    \A s, t \in Sess :
        (s # t /\ gen[s] # None) => gen[s] \notin ({subdomain[t]} \cup old[t])

\* Moreover no session asks for a label that another session was given on
\* connect.
GenUnshared ==
    /\ NoCollision
    /\ \A s, t \in Sess : (s # t /\ gen[s] # None) => gen[s] \notin Requested(t)

\* C1: a registration is only performed on a label that is available at that
\* moment: no step replaces the registry entry of one session by another
\* session.  Stated for the steps after which no session's generated label
\* is held, was held or is requested by another session, where an overwrite
\* can only come from two renames.
C1_NeverOverwrites ==
    [][\A l \in Labels :
          (GenUnshared' /\ clients[l] # None /\ clients'[l] # None)
              => clients'[l] = clients[l]]_vars

\* C2: between its registration and its teardown, whenever a session's reader
\* is between two frames, the registry maps exactly one label to the session
\* and that label is the session's label field.  Stated for the states in
\* which no session's generated label is held, was held or is requested by
\* another session.
C2_ExactlyOneLabel ==
    \A s \in Sess :
        (GenUnshared /\ spc[s] = "read") =>
            {l \in Labels : clients[l] = s} = {subdomain[s]}

\* C3: while a session's rename from its old label to the requested one is in
\* progress, a lookup finds the session under exactly one of the two labels.
\* Stated for the states in which no session's generated label is held, was
\* held or is requested by another session.
C3_RenameAtomic ==
    \A s \in Sess :
        (GenUnshared /\ spc[s] \in {"sr_unregister", "sr_register"}) =>
            (getClient(clients, subdomain[s]) = s) # (getClient(clients, rmsg[s].x) = s)

\* C4: a session that has just been renamed still has its outbound queue
\* open and its writer loop running.
C4_QueueSurvivesRename ==
    \A s \in Sess :
        spc[s] \in {"sr_assign", "sr_assigning"} =>
            ~closed[s] /\ wpc[s] \in {"run", "writing"}

\* C5: a public request routed to a session by a label the session got by a
\* rename is forwarded: unless the body cannot be read or the queue is full,
\* its http_request frame is enqueued on the session's queue.
C5_ForwardedOnNewLabel ==
    \A a \in Adapt :
        (/\ apc[a] \in {"wait", "cleanup", "done"}
         /\ acl[a] # None
         /\ RoutedLabel(a) # gen[acl[a]]
         /\ ares[a] \notin {"500", "503"}) => aenq[a]

\* C6: when the requested label is registered to another session, the
\* reader's answer on a live connection is an error frame naming the label,
\* the reader goes on reading, and the registry and every label field stay as
\* they were.  Stated for the steps before which no connect was given a label
\* another session holds or has held.
C6_ConflictAnswered ==
    [][\A s \in Sess :
          (/\ NoCollision
           /\ spc[s] = "sr_erroring" /\ spc'[s] # "sr_erroring"
           /\ clients[rmsg[s].x] \notin {None, s}
           /\ ~connDead(s)) =>
              /\ wire'[s] = Append(wire[s], Message("error", rmsg[s].x, None))
              /\ spc'[s] = "read"
              /\ clients' = clients
              /\ subdomain' = subdomain]_vars

\* C7: a public request that found a session under a label the session has
\* since left by a rename lands on that session: unless the body cannot be
\* read or the queue is full, its http_request frame is enqueued there (a
\* request that found no session is answered 404).
C7_LandsOnOldOr404 ==
    \A a \in Adapt :
        /\ (apc[a] = "done" /\ ContainsDot(ahost[a]) /\ acl[a] = None) => ares[a] = "404"
        /\ (/\ apc[a] = "done"
            /\ acl[a] # None
            /\ RoutedLabel(a) \in old[acl[a]]
            /\ ares[a] \notin {"500", "503"}) => aenq[a]

\* C8: once an adapter has returned, on any exit path, the pending table
\* holds no entry for its sink; an entry exists only while its adapter is
\* between the insertion and the deferred removal.
C8_PendingRemoved ==
    \A a \in Adapt : \A i \in Ids :
        pendingRequests[i] = a => (aid[a] = i /\ apc[a] \in {"enqueue", "wait", "cleanup"})

\* C8 witness: one adapter has relayed a response and returned, the other has
\* returned after it gave up or found the queue full or closed.
C8_Witness ==
    \E a, b \in Adapt :
        /\ apc[a] = "done" /\ ares[a] = "relayed"
        /\ apc[b] = "done" /\ ares[b] \in {"503", "504", "408", "panic"}

\* C9: delivery never blocks the reader: when the reader is at the send on a
\* sink, the sink has room or its adapter has yet to reach or leave the
\* receive that makes room (a full sink whose adapter is past the receive
\* is never emptied, and the reader never returns from the send).
C9_DeliveryNeverBlocks ==
    \A s \in Sess :
        spc[s] = "hr_send" =>
            \/ CanSend(responseChan[rch[s]], SinkCap)
            \/ apc[rch[s]] \in {"enqueue", "wait"}

\* C10: at most one http_response frame is ever placed on the sink of one
\* adapter.
C10_AtMostOnce ==
    \A a \in Adapt : placed[a] <= 1

\* C11: whenever an adapter has relayed a response to its public caller, what
\* it wrote is the content of an http_response frame whose ID is the request
\* id this adapter allocated.
C11_NotCommingled ==
    \A a \in Adapt :
        ares[a] = "relayed" =>
            aresp[a].type = "http_response" /\ aresp[a].x = aid[a]

\* C11 witness: two requests with different ids, forwarded to different
\* sessions, have both been relayed.
C11_Witness ==
    \E a, b \in Adapt :
        /\ ares[a] = "relayed" /\ ares[b] = "relayed"
        /\ aid[a] # aid[b]
        /\ acl[a] # acl[b]

\* C12: when two pending requests were allocated the same id, no caller is
\* handed the response to the other caller's request: a frame an adapter has
\* just relayed is not the local response to a request whose own adapter is
\* still waiting.
C12_CollisionLosesOne ==
    \A a \in Adapt :
        (/\ apc[a] = "cleanup"
         /\ ares[a] = "relayed"
         /\ aresp[a].re # None
         /\ apc[aresp[a].re] = "wait") => aresp[a].re = a

\* C13: the enqueue on a session's outbound queue is non-blocking.  The queue
\* never holds more than its capacity; an adapter at the enqueue of an open
\* queue can always take its step; if the queue is full the step answers 503
\* and leaves the queue and every other adapter as they were; otherwise the
\* frame is appended and nothing is answered yet.
C13_EnqueueNonBlocking ==
    /\ [](\A s \in Sess : Len(send[s]) <= QueueCap)
    /\ [](\A a \in Adapt :
             (apc[a] = "enqueue" /\ ~crashed) => ENABLED HandleHTTPRequestEnqueue(a))
    /\ [][\A a \in Adapt :
             (apc[a] = "enqueue" /\ apc'[a] # "enqueue" /\ ~closed[acl[a]]) =>
                 IF Len(send[acl[a]]) >= QueueCap
                 THEN /\ ares'[a] = "503"
                      /\ send' = send
                      /\ \A b \in Adapt \ {a} :
                            /\ apc'[b] = apc[b]
                            /\ ares'[b] = ares[b]
                            /\ aenq'[b] = aenq[b]
                 ELSE /\ send'[acl[a]] =
                            Append(send[acl[a]], Message("http_request", aid[a], a))
                      /\ ares'[a] = "none"
                      /\ apc'[a] = "wait"]_vars

\* C13 witness: one adapter found the queue full and answered 503 while the
\* adapter whose frame fills the queue is still waiting for its response.
C13_Witness ==
    \E a, b \in Adapt :
        /\ ares[a] = "503"
        /\ apc[b] = "wait"
        /\ acl[a] = acl[b]
        /\ Len(send[acl[b]]) = QueueCap

\* What holds of every adapter that stopped waiting with the given status:
\* nothing was relayed to its caller, its pending entry is gone once it has
\* returned, a frame read after that finds no sink of this adapter, and the
\* answer to its request is relayed to no other caller (whose id differs).
GaveUpDiscards(status) ==
    \A a \in Adapt :
        ares'[a] = status =>
            /\ aresp'[a] = NoMsg
            /\ apc'[a] = "done" => \A i \in Ids : pendingRequests'[i] # a
            /\ apc[a] = "done" => \A s \in Sess : rch'[s] = a => rch[s] = a
            /\ \A b \in Adapt \ {a} : aid'[b] # aid'[a] => aresp'[b].re # a

\* the answer to adapter a's request arrived after a returned with the given
\* status and was logged and dropped
LateDropped(a, status) ==
    /\ ares[a] = status
    /\ apc[a] = "done"
    /\ <<aid[a], a>> \in dropped
    /\ \A b \in Adapt \ {a} : aid[b] # aid[a]

C16_SingleWriter ==
    \A s \in Sess :
        /\ Cardinality(writing[s]) <= 1
        /\ wpc[s] # "off" => writing[s] \subseteq {"w"}

\* C19: once the handler of a session has returned after its reader ended,
\* the registry holds the session under no label (also not under a label it
\* got by rename) and its outbound queue is closed.  Stated for the states
\* in which no generated label collided with a label of another session.
C19_TeardownUnregisters ==
    \A s \in Sess :
        (NoCollision /\ spc[s] = "done") =>
            /\ \A l \in Labels : clients[l] # s
            /\ closed[s]

\* C20: the teardown of one session removes no registry entry of another
\* session and does not close another session's queue, also when the other
\* session was since given the label the ending session has left by a rename.
C20_TeardownIsLocal ==
    [][\A s \in Sess :
         (spc[s] = "unregister" /\ spc'[s] = "done" /\ gen[s] \in old[s]) =>
             \A t \in Sess \ {s} :
                 /\ closed'[t] = closed[t]
                 /\ \A l \in Labels : clients[l] = t => clients'[l] = t]_vars

\* C17: every write on the client's connection is made by the holder of
\* writeMu, so at most one task is inside a write call at any time.
C17_ClientWriteGuard ==
    /\ cwriting \subseteq ({writeMu} \ {None})
    /\ Cardinality(cwriting) <= 1

\* C17 witness: one worker is inside its write while another worker and the
\* shutdown in Run are waiting for the guard.
C17_Witness ==
    \E w, v \in Workers :
        /\ wk[w].pc = "write"
        /\ wk[v].pc = "lock"
        /\ cpc = "lock"

\* C18: for every http_request the client received, its worker tries to send
\* exactly one http_response with the same id (never two, and one once it
\* has finished): the local response on success, or status 500 with a JSON
\* error body on a failure.
C18_ExactlyOneResponse ==
    /\ \A w \in Workers :
          /\ wk[w].sent <= 1
          /\ wk[w].pc = "done" => wk[w].sent = 1
    /\ \A k \in DOMAIN cwire :
          cwire[k].type = "http_response" =>
              /\ \E w \in Workers : wk[w].pc = "done" /\ ClientResponse(wk[w]) = cwire[k]
              /\ cwire[k].status = "500" => IsJSONObject(cwire[k].body)

\* the counting part of C18 alone
C18_Count ==
    /\ \A w \in Workers :
          /\ wk[w].sent <= 1
          /\ wk[w].pc = "done" => wk[w].sent = 1
    /\ \A k \in DOMAIN cwire :
          cwire[k].type = "http_response" =>
              \E w \in Workers : wk[w].pc = "done" /\ ClientResponse(wk[w]) = cwire[k]

\* C21: an upgrade request whose Authorization value is missing or differs
\* from "Bearer <configured token>" is answered 401 and creates no session:
\* the step changes neither the registry nor any label, and every session
\* that is in the registry, has a label or was written to presented exactly
\* that value.
C21_UnauthorizedNoSession ==
    /\ [](\A s \in Sess :
             /\ (spc[s] # "idle" /\ auth[s] # <<"Bearer ", Token>>) =>
                    /\ spc[s] = "unauthorized"
                    /\ gen[s] = None /\ subdomain[s] = None /\ wire[s] = <<>>
             /\ (\E l \in Labels : clients[l] = s) => auth[s] = <<"Bearer ", Token>>)
    /\ [][\A s \in Sess :
             (spc[s] = "idle" /\ spc'[s] # "idle" /\ auth'[s] # <<"Bearer ", Token>>) =>
                 /\ spc'[s] = "unauthorized"
                 /\ clients' = clients
                 /\ gen' = gen /\ subdomain' = subdomain /\ wire' = wire]_vars

\* C21 witness: an upgrade with another token was answered 401 while a
\* session that presented the credential is registered.
C21_Witness ==
    \E s, t \in Sess :
        /\ spc[s] = "unauthorized" /\ auth[s] = <<"Bearer ", "guess">>
        /\ spc[t] = "read" /\ \E l \in Labels : clients[l] = t

\* C22: an authenticated connect registers the session under the generated
\* label, and the first frame written to the client is subdomain_assigned
\* carrying <label>.<domain>.  If that write fails the handler goes to its
\* teardown with nothing written and no writer started, and once it has
\* returned the registry holds no entry of the session, whose reader and
\* writer loop never ran.
C22_ConnectAssigns ==
    /\ [](\A s \in Sess :
             /\ wire[s] # <<>> =>
                    /\ wire[s][1].type = "subdomain_assigned"
                    /\ wire[s][1].sub = <<gen[s], Domain>>
             /\ (spc[s] = "done" /\ wire[s] = <<>>) =>
                    /\ \A l \in Labels : clients[l] # s
                    /\ wpc[s] = "off"
                    /\ nread[s] = 0)
    /\ [][\A s \in Sess :
             /\ (spc[s] = "idle" /\ spc'[s] = "assign") =>
                    /\ gen'[s] \in Labels
                    /\ clients'[gen'[s]] = s
                    /\ wire'[s] = <<>>
             /\ (spc[s] = "assign" /\ spc'[s] # "assign") =>
                    IF connDead(s)
                    THEN spc'[s] = "unregister" /\ wire'[s] = <<>> /\ wpc'[s] = "off"
                    ELSE spc'[s] = "read" /\ Len(wire'[s]) = 1 /\ wpc'[s] = "run"]_vars

\* C22 witness: the first write of one session failed and its handler has
\* returned, while another session was sent its label and is reading.
C22_Witness ==
    \E s, t \in Sess :
        /\ spc[s] = "done" /\ wire[s] = <<>> /\ gen[s] # None
        /\ spc[t] = "read" /\ wire[t] = <<AssignMsg(gen[t])>>

\* the adapter's step answered without touching the pending table or any
\* session's queue
AnsweredEarly(a, status) ==
    /\ ares'[a] = status
    /\ apc'[a] = "done"
    /\ pendingRequests' = pendingRequests
    /\ send' = send
    /\ aid'[a] = None
    /\ aenq'[a] = FALSE

\* C23: a public request whose Host has no dot is answered 400 and one whose
\* label is not registered is answered 404; in both cases the step creates
\* no pending entry and enqueues no frame, and the adapter has returned with
\* no id, no entry and no frame of its own on any queue or connection.
C23_EarlyRejects ==
    /\ [](\A a \in Adapt :
             ares[a] \in {"400", "404"} =>
                 /\ apc[a] = "done"
                 /\ (ares[a] = "400") = (Len(ahost[a]) < 2)
                 /\ \A i \in Ids : pendingRequests[i] # a
                 /\ \A s \in Sess : \A k \in DOMAIN send[s] : send[s][k].y # a
                 /\ \A s \in Sess : \A k \in DOMAIN wire[s] :
                        wire[s][k].type = "http_request" => wire[s][k].y # a)
    /\ [][\A a \in Adapt :
             (apc[a] = "idle" /\ apc'[a] # "idle") =>
                 IF Len(ahost'[a]) < 2
                 THEN AnsweredEarly(a, "400")
                 ELSE IF clients[ahost'[a][1]] = None
                 THEN AnsweredEarly(a, "404")
                 ELSE ares'[a] = "none" /\ acl'[a] = clients[ahost'[a][1]]]_vars

\* C23 witness: a request with a Host that is a registered label without a
\* dot was answered 400.
C23_Witness ==
    \E a \in Adapt :
        /\ ares[a] = "400"
        /\ clients[ahost[a][1]] # None

\* C23 witness of the second case: a request for a label its session has
\* left by a rename was answered 404.
C23_Witness404 ==
    \E a \in Adapt : \E s \in Sess :
        /\ ares[a] = "404"
        /\ ahost[a][1] \in old[s]
        /\ spc[s] = "read"

\* C24: frames of an unknown or unexpected type do not tear down a session.
\* A step in which the server's reader reads a frame that is neither an
\* http_response nor a subdomain_request leaves the reader reading, and the
\* registry, the pending table, the sinks, the queues and the connection as
\* they were; a step in which the client's reader reads an error frame or a
\* frame of an unknown type leaves it reading, its connection open and Run
\* and the workers as they were.
C24_UnknownFramesIgnored ==
    [][/\ \A s \in Sess : \A m \in Inbound(s) :
             (m.type \notin {"http_response", "subdomain_request"} /\ ReadPumpRead(s, m)) =>
                 /\ spc'[s] = "read"
                 /\ ~connClosed'[s]
                 /\ clients' = clients
                 /\ pendingRequests' = pendingRequests
                 /\ responseChan' = responseChan
                 /\ send' = send /\ closed' = closed /\ wire' = wire
       /\ \A m \in ClientInbound :
             (m.type \in {"error", "unknown"} /\ HandleMessagesRead(m)) =>
                 /\ rpc' = "read"
                 /\ ~cdone' /\ ~cconnClosed'
                 /\ cpc' = cpc /\ wk' = wk /\ cwire' = cwire]_vars

\* C24 witness: the server's reader has read a frame that was neither
\* delivered nor dropped nor a rename, while a public request is pending, and
\* is now delivering the http_response it read next; the client's reader has
\* read two frames that started no worker and a request after them or
\* between them, and is still reading.
C24_Witness ==
    /\ \E s \in Sess :
          /\ spc[s] = "hr_send" /\ nread[s] = 2
          /\ dropped = {} /\ \A a \in Adapt : placed[a] = 0
    /\ rpc = "read" /\ ~cdone
    /\ cnread = 3
    /\ Cardinality({w \in Workers : wk[w].pc # "free"}) = 1

\* C25: unregister(label) is idempotent.  Every step of a handler that
\* unregisters a label (the deferred one of HandleWebSocket, on the generated
\* label, and the one of a rename, on the session's label) leaves the label
\* without an entry; if the label was registered, the queue of the session
\* that held it is closed after the step; if the label was absent, as after
\* an earlier unregister of it, the registry and the queues are unchanged.
C25_UnregisterIdempotent ==
    [][\A s \in Sess :
          LET l == IF spc[s] = "unregister" THEN gen[s] ELSE subdomain[s]
          IN ((spc[s] = "unregister" /\ spc'[s] = "done")
                \/ (spc[s] = "sr_unregister" /\ spc'[s] # "sr_unregister")) =>
                 /\ clients'[l] = None
                 /\ clients[l] # None => closed'[clients[l]]
                 /\ clients[l] = None => (clients' = clients /\ closed' = closed)]_vars

\* C26: every http_response an adapter consumes from its sink has an id that
\* is present in the pending table, mapped to that adapter's sink, at the
\* moment of consumption.
C26_ConsumedIsPending ==
    [][\A a \in Adapt :
          (apc[a] = "wait" /\ ares'[a] = "relayed") =>
              /\ aresp'[a].type = "http_response"
              /\ aresp'[a].x \in Ids
              /\ pendingRequests[aresp'[a].x] = a]_vars

\* C27: the client's reader is independent of its workers.  Whatever the
\* workers are doing, a reader on an open connection can take its next frame
\* (an http_request as long as the bound on the workers leaves one to start);
\* reading an http_request starts one more worker on that frame's id and
\* leaves the reader reading and the other workers as they were, and no
\* step of a worker moves the reader.
C27_ReaderIndependent ==
    /\ [](\A m \in ClientInbound :
             (/\ rpc = "read" /\ ~cconnClosed /\ cnread < MaxClientFrames
              /\ m.type = "http_request" => \E w \in Workers : wk[w].pc = "free")
                 => ENABLED HandleMessagesRead(m))
    /\ [][/\ \A m \in ClientInbound :
               (m.type = "http_request" /\ HandleMessagesRead(m)) =>
                   /\ rpc' = "read"
                   /\ \E w \in Workers :
                         /\ wk[w].pc = "free"
                         /\ wk'[w].pc = "run" /\ wk'[w].id = m.x
                         /\ \A v \in Workers \ {w} : wk'[v] = wk[v]
          /\ (\E w \in Workers : wk[w].pc # "free" /\ wk'[w] # wk[w]) =>
                 (rpc' = rpc /\ cnread' = cnread)]_vars

\* C27 witness: two requests with different ids were in flight at once and
\* the response to the one dispatched second was written first.
C27_Witness ==
    /\ Len(cwire) = 2
    /\ wk[1].id # wk[2].id
    /\ cwire[1] = ClientResponse(wk[2])
    /\ cwire[2] = ClientResponse(wk[1])
    /\ rpc = "read"

\* the graceful close frames written on the client's connection
CloseFrames == {k \in DOMAIN cwire : cwire[k].type = "close"}

\* C28: client shutdown terminates.  Once the interrupt was taken, Run gets
\* the write guard, makes one write call of a close frame as the holder of
\* the guard, and returns after the wait whether or not the reader has
\* finished; once the connection is closed with no interrupt taken, Run
\* returns, and that step writes nothing: a close frame is on the connection
\* only after the interrupt, and never more than one.
C28_ShutdownTerminates ==
    /\ (cpc \in {"lock", "write", "wait"}) ~> (cpc = "returned")
    /\ (cpc = "select" /\ cdone) ~> (cpc = "returned")
    /\ [](/\ Cardinality(CloseFrames) <= 1
          /\ CloseFrames # {} => cpc \in {"wait", "returned"}
          /\ cpc = "write" => (writeMu = Main /\ cwriting = {Main}))
    /\ [][/\ (cpc = "select" /\ cpc' = "returned") => (cdone /\ cwire' = cwire)
          /\ (cpc = "write" /\ cpc' # "write") =>
                 /\ cpc' = "wait"
                 /\ writeMu' = None
                 /\ cwire' = IF cconnClosed THEN cwire ELSE Append(cwire, CloseFrame)
          /\ (cpc = "wait" /\ cpc' # "wait") => (cpc' = "returned" /\ cwire' = cwire)]_vars

\* C28 witness: after an interrupt Run sent the close frame behind a worker's
\* response and returned when the second had elapsed, the reader still
\* reading.
C28_Witness ==
    /\ cpc = "returned"
    /\ rpc = "read" /\ ~cdone
    /\ Len(cwire) = 2
    /\ cwire[1].type = "http_response"
    /\ cwire[2] = CloseFrame

\* C29: the writer loop exits in exactly two ways: on a closed queue, after
\* the write call of a close frame, and on a failed write call; and after an
\* exit on a failed write the session's reader fails too and the session is
\* eventually unregistered: its handler has returned and the registry holds
\* it under no label.
C29_WriterExits ==
    /\ [][\A s \in Sess :
             (wpc[s] # "exit" /\ wpc'[s] = "exit") =>
                 \/ closed[s] /\ send[s] = <<>> /\ (connDead(s) \/ wmsg[s].type = "close")
                 \/ connDead(s)]_vars
    /\ \A s \in Sess :
          (wpc[s] = "exit" /\ ~closed[s] /\ ~crashed)
              ~> (spc[s] = "done" /\ \A l \in Labels : clients[l] # s)

\* the terminal transitions of a pending request: Delivered, TimedOut and
\* Cancelled
Terminal == {"relayed", "504", "408"}

\* C30: each pending entry makes exactly one terminal transition before its
\* removal.  An adapter that enqueued its request and has left the wait
\* answered in exactly one of the three ways; what an adapter wrote to its
\* caller is never written over by a second response; and the entry of an
\* adapter that enqueued its request leaves the pending table only after
\* that adapter's terminal transition.
C30_OneTerminalTransition ==
    /\ [](\A a \in Adapt :
             (aenq[a] /\ apc[a] \in {"cleanup", "done"}) => ares[a] \in Terminal)
    /\ [][/\ \A a \in Adapt : ares[a] # "none" => ares'[a] = ares[a]
          /\ \A a \in Adapt : \A i \in Ids :
                (aenq[a] /\ pendingRequests[i] = a /\ pendingRequests'[i] # a) =>
                    ares[a] \in Terminal]_vars

\* C31: every new control connection is registered under the label the
\* generator returned, whatever the subdomain query parameter of its upgrade
\* (also a label an earlier connection held): from every state in which a
\* connection can be accepted it can be accepted with every parameter and
\* every generated label, and the parameter changes nothing but its own
\* record.  A session's label changes after that only to the label a
\* subdomain_request frame asked for.
C31_RandomLabelOnConnect ==
    /\ [](\A s \in Sess : \A g \in 1..s : \A q \in {None} \cup Labels :
             (spc[s] = "idle" /\ CanStart(spc, s) /\ ~crashed) =>
                 ENABLED (/\ HandleWebSocketConnect(s, g, q)
                          /\ subdomain'[s] = g
                          /\ clients' = [clients EXCEPT ![g] = s]))
    /\ [][\A s \in Sess :
             /\ (spc[s] = "idle" /\ spc'[s] = "assign") =>
                    /\ subdomain'[s] = gen'[s]
                    /\ clients' = [clients EXCEPT ![gen'[s]] = s]
             /\ (spc[s] # "idle" /\ subdomain'[s] # subdomain[s]) =>
                    /\ spc[s] = "sr_register"
                    /\ rmsg[s].type = "subdomain_request"
                    /\ subdomain'[s] = rmsg[s].x]_vars

\* C31 witness: a session was renamed to a chosen label and ended; the next
\* connection asked for that label in its query parameter and is registered
\* under another, generated label.
C31_Witness ==
    \E s, t \in Sess :
        /\ spc[s] = "done" /\ old[s] # {}
        /\ query[t] = subdomain[s]
        /\ spc[t] = "read"
        /\ subdomain[t] = gen[t] /\ gen[t] # query[t]
        /\ clients[gen[t]] = t

\* C32: an adapter never enqueues onto an outbound queue that has been
\* closed: whenever an adapter executes its send on the queue of the session
\* it looked up, that queue is open, and no adapter's request ends in the
\* panic of a send on a closed channel.
C32_EnqueueOnlyOpen ==
    /\ [](\A a \in Adapt : ares[a] # "panic")
    /\ [][\A a \in Adapt :
             (apc[a] = "enqueue" /\ apc'[a] # "enqueue") => ~closed[acl[a]]]_vars

\* C33: an http_response frame is delivered to an adapter's sink only if it
\* arrived on the session to which that adapter's http_request was enqueued,
\* and a frame received from another session is never relayed to that
\* adapter's public caller.  Stated for the states in which no generated
\* label collided with a label of another session and for the adapters whose
\* request was enqueued.
C33_OnlyFromOwnSession ==
    \A a \in Adapt :
        (NoCollision /\ aenq[a]) =>
            /\ \A k \in DOMAIN responseChan[a] : responseChan[a][k].y = acl[a]
            /\ ares[a] = "relayed" => aresp[a].y = acl[a]

\* C34: each session's outbound queue is closed at most once over the
\* session's lifetime: no unregister step of any handler (the deferred one of
\* HandleWebSocket, on the generated label, or the one of a rename, on the
\* session's label) runs close on a queue that is already closed, and a queue
\* once closed stays closed.
C34_ClosedAtMostOnce ==
    [][\A s \in Sess :
          /\ closed[s] => closed'[s]
          /\ LET l == IF spc[s] = "unregister" THEN gen[s] ELSE subdomain[s]
             IN ((spc[s] = "unregister" /\ spc'[s] = "done")
                   \/ (spc[s] = "sr_unregister" /\ spc'[s] # "sr_unregister")) =>
                    ~unregisterPanics(clients, closed, l)]_vars

\* The http_request frames of a sequence of frames, in their order.
ReqFrames(q) == SelectSeq(q, LAMBDA m : m.type = "http_request")

\* The http_request frames of a session from the transport back to the tail
\* of its queue: those written (w), the one in the writer's write call (m),
\* those in the queue (q).
Pipeline(w, m, q) ==
    ReqFrames(w) \o (IF m.type = "http_request" THEN <<m>> ELSE <<>>) \o q

\* C35: writePump writes the frames of a session's queue in the order they
\* were enqueued, each at most once, and only frames enqueued by an adapter
\* that got past the non-blocking enqueue.  Every http_request frame on a
\* session's transport carries the id of an adapter that was routed to the
\* session and enqueued, and no frame is there twice.  In every step the
\* frames written stay a prefix of the pipeline, and the pipeline changes in
\* two ways only: an adapter that passes the enqueue appends its frame at the
\* tail, or the oldest frame not yet written is lost (its write call failed
\* or overlapped another task's write, or the connection was dead when it was
\* received).
C35_WriterFifo ==
    /\ [](\A s \in Sess :
            LET w == ReqFrames(wire[s])
            IN \A i \in DOMAIN w :
                  /\ w[i].y \in Adapt /\ aenq[w[i].y]
                  /\ acl[w[i].y] = s /\ aid[w[i].y] = w[i].x
                  /\ \A j \in DOMAIN w : w[j] = w[i] => j = i)
    /\ [][\A s \in Sess :
            LET p == Pipeline(wire[s], wmsg[s], send[s])
                n == Len(ReqFrames(wire[s]))
                pn == Pipeline(wire'[s], wmsg'[s], send'[s])
                nn == Len(ReqFrames(wire'[s]))
            IN /\ nn >= n /\ nn <= Len(pn)
               /\ \/ pn = p
                  \/ \E a \in Adapt :
                        /\ apc[a] = "enqueue" /\ acl[a] = s
                        /\ ~aenq[a] /\ aenq'[a]
                        /\ pn = Append(p, Message("http_request", aid[a], a))
                  \/ /\ Len(p) > n /\ nn = n
                     /\ pn = SubSeq(p, 1, n) \o SubSeq(p, n + 2, Len(p))]_vars

\* Both adapters' frames are on the transport of session 1, the frame of
\* adapter 2 before the frame of adapter 1.
C35_Witness ==
    LET w == ReqFrames(wire[1])
    IN Len(w) = 2 /\ w[1].y = 2 /\ w[2].y = 1 /\ ~crashed

\* C36: a subdomain_request for the session's own current label is treated
\* as unavailable.  The reader that reads such a frame takes the error branch;
\* while it answers, the registry entry of the label, the session's label
\* field and the state of its queue stay as they were; and its answer on a
\* live connection is the error frame naming the label, after which it goes
\* on reading.
C36_OwnLabelUnavailable ==
    [][\A s \in Sess :
          /\ \A m \in Inbound(s) :
                (ReadPumpRead(s, m) /\ m.type = "subdomain_request"
                   /\ m.x = subdomain[s]) => spc'[s] = "sr_error"
          /\ (spc[s] \in {"sr_error", "sr_erroring"} /\ rmsg[s].x = subdomain[s]) =>
                /\ clients'[subdomain[s]] = clients[subdomain[s]]
                /\ subdomain'[s] = subdomain[s]
                /\ closed'[s] = closed[s]
          /\ (/\ spc[s] = "sr_erroring" /\ spc'[s] # "sr_erroring"
              /\ rmsg[s].x = subdomain[s]
              /\ ~connDead(s)) =>
                /\ wire'[s] = Append(wire[s], Message("error", rmsg[s].x, None))
                /\ spc'[s] = "read"]_vars
====
